---- MODULE Spec2Model ----
(***************************************************************************)
(* Employee attendance tracker backend (src/index.js, first draft, with    *)
(* the schema of the first setupDatabase draft).  One HTTP service, one    *)
(* SQLite store reached through a single shared connection.  Every request *)
(* handler is an async function: between two awaited statements the        *)
(* statements of other requests can run, so a handler is modelled as one   *)
(* step per awaited statement, the synchronous code that follows the       *)
(* statement's result being part of the same step.                         *)
(*                                                                         *)
(* Specifications, one per group of routes:                                *)
(*   SpecAdd       POST /api/employees behind checkEmployeeLimit           *)
(*   SpecTap       POST /api/kiosk/tap, taps overlapping                   *)
(*   SpecTapSeq    POST /api/kiosk/tap, one tap at a time                  *)
(*   SpecRegister  POST /api/auth/register                                 *)
(*   SpecWebhook   POST /api/subscription/webhook                          *)
(*   SpecPut       PUT /api/company/subscription (second draft of index.js)*)
(*   SpecSeats     registrations and POST /api/employees, one at a time    *)
(*   SpecRegisterTap  registrations and kiosk taps, overlapping            *)
(*   SpecRoster    GET, POST and DELETE /api/employees                     *)
(*   SpecSetup     startServer and setupDatabase (drafts of database.js)   *)
(*   SpecCheckout / SpecCheckoutSeq  create-checkout-session, overlapping *)
(*                 and one at a time                                       *)
(*   SpecRosterTap / SpecRosterTapSeq  add, delete and tap, overlapping    *)
(*                 and one at a time                                       *)
(*   SpecShared    every writing route on the shared connection            *)
(*   SpecDowngrade webhooks for a company with more employees than tier1   *)
(***************************************************************************)
EXTENDS Integers, Sequences, FiniteSets, TLC

(* ------------------------------ bounds --------------------------------- *)
NumProcs == 2
NumFreshCards == 2
MaxRequests == 2
MaxTime == 1

Procs == 1..NumProcs
CompanyIds == {1, 2}

(* ------------------------- program constants --------------------------- *)
SUBSCRIPTION_PLANS ==
    [free  |-> [max_employees |-> 5,   priceId |-> "none"],
     tier1 |-> [max_employees |-> 25,  priceId |-> "price_1RcqdMRrM3oPkiXETF1HGOgU"],
     tier2 |-> [max_employees |-> 100, priceId |-> "price_1RcqdzRrM3oPkiXEWrBjpEXK"],
     tier3 |-> [max_employees |-> 500, priceId |-> "price_1RcqeLRrM3oPkiXEvjDqtRT8"]]

PlanKeys == DOMAIN SUBSCRIPTION_PLANS
FreeCap == SUBSCRIPTION_PLANS["free"].max_employees

\* Card ids presented in request bodies: card 1 (held by a seeded employee of
\* either tenant) and cards no seeded employee holds; 0 is a missing field.
PresentedCards == {1} \cup (FreeCap + 1 .. FreeCap + NumFreshCards)
\* the bodies of POST /api/employees: <<name, nfc_card_id>>, 0 a missing field
AddBodies == {<<0, 1>>, <<1, 0>>} \cup {<<1, c>> : c \in PresentedCards}

(* ------------------------------- state --------------------------------- *)
VARIABLES
    db,        \* the five tables and sqlite_sequence
    journal,   \* <<>> or <<snapshot>>: the open transaction of the connection
    pc,        \* pc[p]: where request process p is
    req,       \* req[p]: the inputs and locals of p's current or last request
    res,       \* res[p]: status code of p's last response (0: none)
    nreq,      \* number of requests started
    now        \* the store's CURRENT_TIMESTAMP, in whole seconds

vars == <<db, journal, pc, req, res, nreq, now>>

NoReq == [kind |-> "none"]

(* ------------------------------ the store ------------------------------ *)
EmptyDb ==
    [companies       |-> << >>,
     users           |-> << >>,
     kiosks          |-> << >>,
     employees       |-> << >>,
     attendance_logs |-> << >>,
     sqlite_sequence |-> [companies |-> 0, users |-> 0, kiosks |-> 0,
                          employees |-> 0, attendance_logs |-> 0]]

\* INSERT into a table without AUTOINCREMENT: the row gets the largest id in
\* the table + 1
InsertRowReusing(d, table, row) ==
    LET id == IF DOMAIN d[table] = {} THEN 1
              ELSE (CHOOSE i \in DOMAIN d[table] : \A j \in DOMAIN d[table] : j <= i) + 1
    IN [d EXCEPT ![table] = [i \in DOMAIN d[table] \cup {id} |->
                                IF i = id THEN row ELSE d[table][i]],
                 !.sqlite_sequence[table] = id]

\* INSERT into an AUTOINCREMENT table: the row gets id sqlite_sequence + 1
InsertRow(d, table, row) ==
    LET id == d.sqlite_sequence[table] + 1
    IN [d EXCEPT ![table] = [i \in DOMAIN d[table] \cup {id} |->
                                IF i = id THEN row ELSE d[table][i]],
                 !.sqlite_sequence[table] = id]

\* SELECT COUNT(*) FROM employees WHERE company_id = c
EmployeeCount(d, c) ==
    Cardinality({e \in DOMAIN d.employees : d.employees[e].company_id = c})

\* a card id that is unique over all companies
CardInUseAnywhere(d, c, card) ==
    \E e \in DOMAIN d.employees : d.employees[e].nfc_card_id = card

\* UNIQUE(company_id, nfc_card_id) on employees
CardInUse(d, c, card) ==
    \E e \in DOMAIN d.employees :
        /\ d.employees[e].company_id = c
        /\ d.employees[e].nfc_card_id = card

CompanyRow(name, plan, status, cust) ==
    [name |-> name, subscription_plan |-> plan,
     max_employees |-> SUBSCRIPTION_PLANS[plan].max_employees,
     subscription_status |-> status, stripe_customer_id |-> cust]

RECURSIVE AddEmployees(_, _, _)
AddEmployees(d, c, k) ==
    IF k = 0 THEN d
    ELSE InsertRow(AddEmployees(d, c, k - 1), "employees",
                   [company_id |-> c, name |-> 1, nfc_card_id |-> k])

\* A store with two registered tenants: company 1 has k employees holding
\* cards 1..k, company 2 has one employee holding card 1.
SeededDb(k, status2) ==
    LET d1 == InsertRow(EmptyDb, "companies", CompanyRow(1, "free", "active", 1))
        d2 == InsertRow(d1, "companies", CompanyRow(2, "free", status2, 0))
        d3 == InsertRow(d2, "users", [company_id |-> 1, email |-> 1])
        d4 == InsertRow(d3, "users", [company_id |-> 2, email |-> 2])
        d5 == InsertRow(d4, "kiosks", [company_id |-> 1, api_key |-> 1])
        d6 == InsertRow(d5, "kiosks", [company_id |-> 2, api_key |-> 2])
        d7 == AddEmployees(d6, 1, k)
    IN InsertRow(d7, "employees", [company_id |-> 2, name |-> 1, nfc_card_id |-> 1])

(* ------------------------- request bookkeeping ------------------------- *)
\* p answers its request with a status code; the request's locals go out of
\* scope
Respond(p, code) ==
    /\ pc' = [pc EXCEPT ![p] = "idle"]
    /\ res' = [res EXCEPT ![p] = code]
    /\ req' = [req EXCEPT ![p] = NoReq]

\* p answers with a status code and a body; r is what the model keeps of the
\* answered request and its body
Answer(p, code, r) ==
    /\ pc' = [pc EXCEPT ![p] = "idle"]
    /\ res' = [res EXCEPT ![p] = code]
    /\ req' = [req EXCEPT ![p] = r]

\* p suspends at its next awaited statement with locals r
Goto(p, label, r) ==
    /\ pc' = [pc EXCEPT ![p] = label]
    /\ req' = [req EXCEPT ![p] = r]
    /\ UNCHANGED res

\* p is the first process that is free to take an arriving request
FirstIdle(p) ==
    /\ pc[p] = "idle"
    /\ \A q \in Procs : q < p => pc[q] # "idle"

\* a request arrives and is dispatched to the first free process
Begin(p, r, label) ==
    /\ FirstIdle(p)
    /\ nreq < MaxRequests
    /\ nreq' = nreq + 1
    /\ req' = [req EXCEPT ![p] = r]
    /\ pc' = [pc EXCEPT ![p] = label]
    /\ res' = [res EXCEPT ![p] = 0]

(* --------------------- POST /api/employees ----------------------------- *)
\* authenticateToken has accepted a token carrying companyId c
PostEmployeesStart(p) ==
    \E c \in CompanyIds, body \in AddBodies :
        /\ Begin(p, [kind |-> "add", companyId |-> c, name |-> body[1],
                     nfc_card_id |-> body[2], max_employees |-> 0],
                 "gate_company")
        /\ UNCHANGED <<db, journal, now>>

\* the gate's decision on the company row it has read
companyDecision(found, status) ==
    IF ~found THEN 403
    ELSE IF status # "active" THEN 403
    ELSE 0

\* a gate that lets the request through at count = max_employees
countDecisionOffByOne(count, max_employees) ==
    IF count > max_employees THEN 403 ELSE 0

\* the gate's decision on the count it has read
countDecision(count, max_employees) ==
    IF count >= max_employees THEN 403 ELSE 0

\* checkEmployeeLimit: SELECT max_employees, subscription_status
checkEmployeeLimitCompany(p) ==
    /\ pc[p] = "gate_company"
    /\ UNCHANGED <<db, journal, nreq, now>>
    /\ \E fault \in BOOLEAN :
        LET c == req[p].companyId
            found == c \in DOMAIN db.companies
            status == IF found THEN db.companies[c].subscription_status ELSE "none"
        IN IF fault THEN Respond(p, 500)
           ELSE IF companyDecision(found, status) # 0
           THEN Respond(p, companyDecision(found, status))
           ELSE Goto(p, "gate_count",
                     [req[p] EXCEPT !.max_employees = db.companies[c].max_employees])

\* the body of the 403: `Employee limit of ${company.max_employees} reached.`
LimitReached(max_employees) == [kind |-> "limit", max_employees |-> max_employees]

\* checkEmployeeLimit: SELECT COUNT(*), then next() and the handler's
\* synchronous check of the body fields
checkEmployeeLimitCount(p) ==
    /\ pc[p] = "gate_count"
    /\ UNCHANGED <<db, journal, nreq, now>>
    /\ \E fault \in BOOLEAN :
        LET count == EmployeeCount(db, req[p].companyId)
        IN IF fault THEN Respond(p, 500)
           ELSE IF countDecision(count, req[p].max_employees) # 0
           THEN Answer(p, countDecision(count, req[p].max_employees),
                       LimitReached(req[p].max_employees))
           ELSE IF req[p].name = 0 \/ req[p].nfc_card_id = 0
           THEN Respond(p, 400)
           ELSE Goto(p, "insert", req[p])

\* a handler that answers 500 after the row has been written
PostEmployeesInsertLate(p) ==
    /\ pc[p] = "insert"
    /\ UNCHANGED <<journal, nreq, now>>
    /\ \E fault \in BOOLEAN :
        /\ db' = InsertRow(db, "employees",
                    [company_id |-> req[p].companyId, name |-> req[p].name,
                     nfc_card_id |-> req[p].nfc_card_id])
        /\ Respond(p, IF fault THEN 500 ELSE 201)

\* the handler's INSERT INTO employees and its response
PostEmployeesInsert(p) ==
    /\ pc[p] = "insert"
    /\ UNCHANGED <<journal, nreq, now>>
    /\ \E fault \in BOOLEAN :
        LET c == req[p].companyId
        IN IF fault THEN Respond(p, 500) /\ UNCHANGED db
           ELSE IF CardInUse(db, c, req[p].nfc_card_id)
           THEN Respond(p, 409) /\ UNCHANGED db
           ELSE /\ db' = InsertRow(db, "employees",
                            [company_id |-> c, name |-> req[p].name,
                             nfc_card_id |-> req[p].nfc_card_id])
                /\ Respond(p, 201)

PostEmployees(p) ==
    \/ PostEmployeesStart(p)
    \/ checkEmployeeLimitCompany(p)
    \/ checkEmployeeLimitCount(p)
    \/ PostEmployeesInsert(p)

(* ----------------------- specification: roster ------------------------- *)
RosterSeeds == {0, 4, 5}

InitProcs ==
    /\ pc = [p \in Procs |-> "idle"]
    /\ req = [p \in Procs |-> NoReq]
    /\ res = [p \in Procs |-> 0]
    /\ nreq = 0
    /\ journal = << >>
    /\ now = 0

InitAdd ==
    /\ InitProcs
    /\ \E k \in RosterSeeds, s \in {"active", "canceled"} : db = SeededDb(k, s)

NextAdd == \E p \in Procs : PostEmployees(p)

SpecAdd == InitAdd /\ [][NextAdd]_vars

(* ------------------------ POST /api/kiosk/tap --------------------------- *)
\* x-api-key headers: 0 is a missing header, 3 a key of no kiosk
ApiKeys == 0..3
\* nfc_card_id of a tap: 0 is a missing field, card 1 is held by an employee
\* of each tenant, card 2 by an employee of company 1 or by nobody
TapBodies == {0, 1, 2}

\* the seconds counter of CURRENT_TIMESTAMP advances
Tick ==
    /\ now < MaxTime
    /\ now' = now + 1
    /\ UNCHANGED <<db, journal, pc, req, res, nreq>>

KioskTapStart(p) ==
    \E key \in ApiKeys, card \in TapBodies :
        /\ Begin(p, [kind |-> "tap", apiKey |-> key, nfc_card_id |-> card,
                     kiosk_id |-> 0, company_id |-> 0, employee_id |-> 0,
                     newEventType |-> "none"],
                 "tap_auth")
        /\ UNCHANGED <<db, journal, now>>

\* SELECT id, company_id FROM kiosks WHERE api_key = ?
kiosksByKey(d, key) == {k \in DOMAIN d.kiosks : d.kiosks[k].api_key = key}

\* authenticateKiosk, then the handler's synchronous check of the body
authenticateKiosk(p) ==
    /\ pc[p] = "tap_auth"
    /\ UNCHANGED <<db, journal, nreq, now>>
    /\ \E fault \in BOOLEAN :
        IF req[p].apiKey = 0 THEN Respond(p, 401)
        ELSE IF fault THEN Respond(p, 500)
        ELSE IF kiosksByKey(db, req[p].apiKey) = {} THEN Respond(p, 403)
        ELSE IF req[p].nfc_card_id = 0 THEN Respond(p, 400)
        ELSE LET k == CHOOSE k \in kiosksByKey(db, req[p].apiKey) : TRUE
             IN Goto(p, "tap_employee",
                     [req[p] EXCEPT !.kiosk_id = k,
                                    !.company_id = db.kiosks[k].company_id])

\* a lookup by card id alone
employeesByCardAnyTenant(d, company_id, card) ==
    {e \in DOMAIN d.employees : d.employees[e].nfc_card_id = card}

\* SELECT id, name FROM employees WHERE company_id = ? AND nfc_card_id = ?
employeesByCard(d, company_id, card) ==
    {e \in DOMAIN d.employees :
        /\ d.employees[e].company_id = company_id
        /\ d.employees[e].nfc_card_id = card}

KioskTapEmployee(p) ==
    /\ pc[p] = "tap_employee"
    /\ UNCHANGED <<db, journal, nreq, now>>
    /\ \E fault \in BOOLEAN :
        LET found == employeesByCard(db, req[p].company_id, req[p].nfc_card_id)
        IN IF fault THEN Respond(p, 500)
           ELSE IF found = {} THEN Respond(p, 404)
           ELSE \E e \in found :
                  Goto(p, "tap_last", [req[p] EXCEPT !.employee_id = e])

\* SELECT event_type FROM attendance_logs WHERE employee_id = ?
\* ORDER BY timestamp DESC LIMIT 1: any row of the employee with the greatest
\* timestamp (the order among rows of equal timestamp is not specified)
lastLogs(d, employee_id) ==
    LET mine == {l \in DOMAIN d.attendance_logs :
                    d.attendance_logs[l].employee_id = employee_id}
    IN {l \in mine : \A m \in mine :
            d.attendance_logs[m].timestamp <= d.attendance_logs[l].timestamp}

newEventType(lastEvent) ==
    IF lastEvent = "none" \/ lastEvent = "clock-out" THEN "clock-in" ELSE "clock-out"

KioskTapLastLog(p) ==
    /\ pc[p] = "tap_last"
    /\ UNCHANGED <<db, journal, nreq, now>>
    /\ \E fault \in BOOLEAN :
        LET last == lastLogs(db, req[p].employee_id)
        IN IF fault THEN Respond(p, 500)
           ELSE IF last = {}
           THEN Goto(p, "tap_insert",
                     [req[p] EXCEPT !.newEventType = newEventType("none")])
           ELSE \E l \in last :
                  Goto(p, "tap_insert",
                       [req[p] EXCEPT !.newEventType =
                            newEventType(db.attendance_logs[l].event_type)])

\* the response body of a tap: action is the event type it echoes
Tapped(action) == [kind |-> "tapped", action |-> action]

\* a tap whose row is written although the request is answered 500
KioskTapInsertThenFail(p) ==
    /\ pc[p] = "tap_insert"
    /\ UNCHANGED <<journal, nreq, now>>
    /\ \E fault \in BOOLEAN :
        /\ db' = InsertRow(db, "attendance_logs",
                   [company_id |-> req[p].company_id,
                    employee_id |-> req[p].employee_id,
                    kiosk_id |-> req[p].kiosk_id,
                    nfc_card_id |-> req[p].nfc_card_id,
                    event_type |-> req[p].newEventType,
                    timestamp |-> now])
        /\ IF fault THEN Respond(p, 500)
           ELSE Answer(p, 200, Tapped(req[p].newEventType))

\* a tap that decides the event type again when it inserts
KioskTapInsertRereading(p) ==
    /\ pc[p] = "tap_insert"
    /\ UNCHANGED <<journal, nreq, now>>
    /\ \E fault \in BOOLEAN :
        IF fault THEN Respond(p, 500) /\ UNCHANGED db
        ELSE \E type \in {"clock-in", "clock-out"} :
             /\ LET last == lastLogs(db, req[p].employee_id)
                IN IF last = {} THEN type = newEventType("none")
                   ELSE \E l \in last :
                          type = newEventType(db.attendance_logs[l].event_type)
             /\ db' = InsertRow(db, "attendance_logs",
                        [company_id |-> req[p].company_id,
                         employee_id |-> req[p].employee_id,
                         kiosk_id |-> req[p].kiosk_id,
                         nfc_card_id |-> req[p].nfc_card_id,
                         event_type |-> type,
                         timestamp |-> now])
             /\ Answer(p, 200, Tapped(type))

\* INSERT INTO attendance_logs, timestamp DEFAULT CURRENT_TIMESTAMP, then the
\* 200 with action: newEventType
KioskTapInsert(p) ==
    /\ pc[p] = "tap_insert"
    /\ UNCHANGED <<journal, nreq, now>>
    /\ \E fault \in BOOLEAN :
        IF fault THEN Respond(p, 500) /\ UNCHANGED db
        ELSE /\ db' = InsertRow(db, "attendance_logs",
                        [company_id |-> req[p].company_id,
                         employee_id |-> req[p].employee_id,
                         kiosk_id |-> req[p].kiosk_id,
                         nfc_card_id |-> req[p].nfc_card_id,
                         event_type |-> req[p].newEventType,
                         timestamp |-> now])
             /\ Answer(p, 200, Tapped(req[p].newEventType))

KioskTapStep(p) ==
    \/ authenticateKiosk(p)
    \/ KioskTapEmployee(p)
    \/ KioskTapLastLog(p)
    \/ KioskTapInsert(p)

(* ------------------------ specification: taps -------------------------- *)
\* the store after employee 1 (company 1, card 1) has tapped once at kiosk 1
\* in second 0
TappedOnce(d) ==
    InsertRow(d, "attendance_logs",
              [company_id |-> 1, employee_id |-> 1, kiosk_id |-> 1,
               nfc_card_id |-> 1, event_type |-> newEventType("none"),
               timestamp |-> 0])

InitTap ==
    /\ InitProcs
    /\ \E k \in {1, 2}, tapped \in BOOLEAN :
         db = IF tapped THEN TappedOnce(SeededDb(k, "active"))
              ELSE SeededDb(k, "active")

\* taps of all kiosks, overlapping freely
NextTap ==
    \/ Tick
    \/ \E p \in Procs : KioskTapStart(p) \/ KioskTapStep(p)

SpecTap == InitTap /\ [][NextTap]_vars

\* taps one after the other: a tap starts only when no request is in flight
NextTapSeq ==
    \/ Tick
    \/ \E p \in Procs :
         \/ (\A q \in Procs : pc[q] = "idle") /\ KioskTapStart(p)
         \/ KioskTapStep(p)

SpecTapSeq == InitTap /\ [][NextTapSeq]_vars

(* ----------------------- POST /api/auth/register ------------------------ *)
NumCompanyNames == 2
NumEmails == 2

\* bodies <<companyName, email, password>>, 0 a missing field
RegisterBodies ==
    {<<0, 1, 1>>, <<1, 0, 1>>, <<1, 1, 0>>}
        \cup {<<n, e, 1>> : n \in 1..NumCompanyNames, e \in 1..NumEmails}

RegisterLabels ==
    {"reg_begin", "reg_company", "reg_hash", "reg_user", "reg_kiosk",
     "reg_commit", "reg_rollback"}

\* UNIQUE on companies.name
CompanyNameInUse(d, name) ==
    \E c \in DOMAIN d.companies : d.companies[c].name = name

\* UNIQUE on users.email
EmailInUse(d, email) ==
    \E u \in DOMAIN d.users : d.users[u].email = email

\* the catch block is entered with the error's code
Catch(p, code) == Goto(p, "reg_rollback", [req[p] EXCEPT !.error = code])

RegisterStart(p) ==
    \E body \in RegisterBodies :
        /\ Begin(p, [kind |-> "register", companyName |-> body[1],
                     email |-> body[2], password |-> body[3],
                     newCompanyId |-> 0, error |-> "none"],
                 "reg_begin")
        /\ UNCHANGED <<db, journal, now>>

\* the field check, then BEGIN TRANSACTION on the shared connection: an
\* error when the connection already has a transaction open
RegisterBegin(p) ==
    /\ pc[p] = "reg_begin"
    /\ UNCHANGED <<db, nreq, now>>
    /\ \E fault \in BOOLEAN :
        IF req[p].companyName = 0 \/ req[p].email = 0 \/ req[p].password = 0
        THEN Respond(p, 400) /\ UNCHANGED journal
        ELSE IF fault \/ journal # << >>
        THEN Catch(p, "SQLITE_ERROR") /\ UNCHANGED journal
        ELSE /\ journal' = <<db>>
             /\ Goto(p, "reg_company", req[p])

\* a registration that starts the company on the first paid plan
RegisterCompanyStarter(p) ==
    /\ pc[p] = "reg_company"
    /\ UNCHANGED <<journal, nreq, now>>
    /\ \E fault \in BOOLEAN :
        IF fault THEN Catch(p, "SQLITE_ERROR") /\ UNCHANGED db
        ELSE IF CompanyNameInUse(db, req[p].companyName)
        THEN Catch(p, "SQLITE_CONSTRAINT") /\ UNCHANGED db
        ELSE /\ db' = InsertRow(db, "companies",
                        CompanyRow(req[p].companyName, "tier1", "active", 0))
             /\ Goto(p, "reg_hash",
                     [req[p] EXCEPT !.newCompanyId = db.sqlite_sequence.companies + 1])

\* INSERT INTO companies (name, subscription_plan, max_employees)
RegisterCompany(p) ==
    /\ pc[p] = "reg_company"
    /\ UNCHANGED <<journal, nreq, now>>
    /\ \E fault \in BOOLEAN :
        IF fault THEN Catch(p, "SQLITE_ERROR") /\ UNCHANGED db
        ELSE IF CompanyNameInUse(db, req[p].companyName)
        THEN Catch(p, "SQLITE_CONSTRAINT") /\ UNCHANGED db
        ELSE /\ db' = InsertRow(db, "companies",
                        CompanyRow(req[p].companyName, "free", "active", 0))
             /\ Goto(p, "reg_hash",
                     [req[p] EXCEPT !.newCompanyId = db.sqlite_sequence.companies + 1])

\* bcrypt.hash(password, 10)
RegisterHash(p) ==
    /\ pc[p] = "reg_hash"
    /\ UNCHANGED <<db, journal, nreq, now>>
    /\ \E fault \in BOOLEAN :
        IF fault THEN Catch(p, "ERROR") ELSE Goto(p, "reg_user", req[p])

\* INSERT INTO users; foreign keys are not enforced (no PRAGMA foreign_keys)
RegisterUser(p) ==
    /\ pc[p] = "reg_user"
    /\ UNCHANGED <<journal, nreq, now>>
    /\ \E fault \in BOOLEAN :
        IF fault THEN Catch(p, "SQLITE_ERROR") /\ UNCHANGED db
        ELSE IF EmailInUse(db, req[p].email)
        THEN Catch(p, "SQLITE_CONSTRAINT") /\ UNCHANGED db
        ELSE /\ db' = InsertRow(db, "users",
                        [company_id |-> req[p].newCompanyId, email |-> req[p].email])
             /\ Goto(p, "reg_kiosk", req[p])

\* INSERT INTO kiosks with a fresh random api_key (the kiosk's id stands for
\* the 16 random bytes)
RegisterKiosk(p) ==
    /\ pc[p] = "reg_kiosk"
    /\ UNCHANGED <<journal, nreq, now>>
    /\ \E fault \in BOOLEAN :
        IF fault THEN Catch(p, "SQLITE_ERROR") /\ UNCHANGED db
        ELSE /\ db' = InsertRow(db, "kiosks",
                        [company_id |-> req[p].newCompanyId,
                         api_key |-> db.sqlite_sequence.kiosks + 1])
             /\ Goto(p, "reg_commit", req[p])

\* COMMIT, an error when no transaction is open; then the 201
RegisterCommit(p) ==
    /\ pc[p] = "reg_commit"
    /\ UNCHANGED <<db, nreq, now>>
    /\ \E fault \in BOOLEAN :
        IF fault \/ journal = << >>
        THEN Catch(p, "SQLITE_ERROR") /\ UNCHANGED journal
        ELSE journal' = << >> /\ Respond(p, 201)

\* a catch block that answers without undoing the registration's writes
RegisterRollbackKeeping(p) ==
    /\ pc[p] = "reg_rollback"
    /\ UNCHANGED <<nreq, now>>
    /\ IF journal = << >>
       THEN /\ Goto(p, "unanswered", req[p])
            /\ UNCHANGED <<db, journal>>
       ELSE /\ db' = db
            /\ journal' = << >>
            /\ Respond(p, IF req[p].error = "SQLITE_CONSTRAINT" THEN 409 ELSE 500)

\* catch: ROLLBACK undoes every write made through the connection since
\* BEGIN; with no transaction open it throws inside the catch block and the
\* request is never answered
RegisterRollback(p) ==
    /\ pc[p] = "reg_rollback"
    /\ UNCHANGED <<nreq, now>>
    /\ IF journal = << >>
       THEN /\ Goto(p, "unanswered", req[p])
            /\ UNCHANGED <<db, journal>>
       ELSE /\ db' = journal[1]
            /\ journal' = << >>
            /\ Respond(p, IF req[p].error = "SQLITE_CONSTRAINT" THEN 409 ELSE 500)

Register(p) ==
    \/ RegisterStart(p)
    \/ RegisterBegin(p)
    \/ RegisterCompany(p)
    \/ RegisterHash(p)
    \/ RegisterUser(p)
    \/ RegisterKiosk(p)
    \/ RegisterCommit(p)
    \/ RegisterRollback(p)

\* the steps of a registration that has started
RegisterStep(p) ==
    \/ RegisterBegin(p)
    \/ RegisterCompany(p)
    \/ RegisterHash(p)
    \/ RegisterUser(p)
    \/ RegisterKiosk(p)
    \/ RegisterCommit(p)
    \/ RegisterRollback(p)

(* -------------------- specification: registration ---------------------- *)
InitRegister ==
    /\ InitProcs
    /\ db = EmptyDb

NextRegister == \E p \in Procs : Register(p)

SpecRegister == InitRegister /\ [][NextRegister]_vars

(* -------------------- POST /api/subscription/webhook -------------------- *)
\* external billing-customer references: 1 is held by seeded company 1
Customers == {1, 2}
NoPrice == "price_none"
\* price ids events carry: those of two paid plans and one of no plan
Prices == {SUBSCRIPTION_PLANS[k].priceId : k \in {"tier1", "tier2"}} \cup {"price_unknown"}
SubscriptionStatuses == {"active", "past_due"}

\* An inbound event with what the handler reads of it: whether its signature
\* verifies, its type, data.object.customer, the session's mode, the price id
\* (of the retrieved subscription for a checkout, of the event's own items for
\* an update) and data.object.status.
Event(sig, type, customer, mode, price, status) ==
    [sig |-> sig, type |-> type, customer |-> customer, mode |-> mode,
     price |-> price, status |-> status]

Events ==
    {Event(FALSE, "customer.subscription.deleted", 1, "none", NoPrice, "none")}
    \cup {Event(TRUE, "checkout.session.completed", c, "subscription", pr, "none") :
            c \in Customers, pr \in Prices}
    \cup {Event(TRUE, "checkout.session.completed", 1, "payment",
                 SUBSCRIPTION_PLANS["tier1"].priceId, "none")}
    \cup {Event(TRUE, "customer.subscription.updated", c, "none", pr, st) :
            c \in Customers, pr \in Prices, st \in SubscriptionStatuses}
    \cup {Event(TRUE, "customer.subscription.deleted", c, "none", NoPrice, "none") :
            c \in Customers}
    \cup {Event(TRUE, "invoice.paid", 1, "none", NoPrice, "none")}

\* an update that adds the plan's seats to the company's seats
updateCompanySubscriptionAdding(d, customerId, newPlanKey, status) ==
    IF newPlanKey \in PlanKeys
    THEN [d EXCEPT !.companies = [c \in DOMAIN d.companies |->
            IF customerId # 0 /\ d.companies[c].stripe_customer_id = customerId
            THEN [d.companies[c] EXCEPT
                    !.subscription_plan = newPlanKey,
                    !.max_employees = @ + SUBSCRIPTION_PLANS[newPlanKey].max_employees,
                    !.subscription_status = status]
            ELSE d.companies[c]]]
    ELSE d

\* UPDATE companies SET subscription_plan, max_employees, subscription_status
\* WHERE stripe_customer_id = ?  (a NULL reference, 0, equals nothing)
updateCompanySubscription(d, customerId, newPlanKey, status) ==
    IF newPlanKey \in PlanKeys
    THEN [d EXCEPT !.companies = [c \in DOMAIN d.companies |->
            IF customerId # 0 /\ d.companies[c].stripe_customer_id = customerId
            THEN [d.companies[c] EXCEPT
                    !.subscription_plan = newPlanKey,
                    !.max_employees = SUBSCRIPTION_PLANS[newPlanKey].max_employees,
                    !.subscription_status = status]
            ELSE d.companies[c]]]
    ELSE d

\* a lookup that falls back to the free plan
planKeyOfPriceOrFree(priceId) ==
    IF \E k \in PlanKeys : SUBSCRIPTION_PLANS[k].priceId = priceId
    THEN CHOOSE k \in PlanKeys : SUBSCRIPTION_PLANS[k].priceId = priceId
    ELSE "free"

\* Object.entries(SUBSCRIPTION_PLANS).find(([, d]) => d.priceId === priceId);
\* "none" is the undefined planKey of no match
planKeyOfPrice(priceId) ==
    IF \E k \in PlanKeys : SUBSCRIPTION_PLANS[k].priceId = priceId
    THEN CHOOSE k \in PlanKeys : SUBSCRIPTION_PLANS[k].priceId = priceId
    ELSE "none"

onCheckoutCompleted(d, ev) ==
    IF planKeyOfPrice(ev.price) # "none"
    THEN updateCompanySubscription(d, ev.customer, planKeyOfPrice(ev.price), "active")
    ELSE d

onSubscriptionUpdated(d, ev) ==
    IF planKeyOfPrice(ev.price) # "none"
    THEN updateCompanySubscription(d, ev.customer, planKeyOfPrice(ev.price), ev.status)
    ELSE d

\* a downgrade without the WHERE clause
onSubscriptionDeletedEverywhere(d, ev) ==
    [d EXCEPT !.companies = [c \in DOMAIN d.companies |->
        [d.companies[c] EXCEPT
            !.subscription_plan = "free",
            !.max_employees = SUBSCRIPTION_PLANS["free"].max_employees,
            !.subscription_status = "canceled"]]]

onSubscriptionDeleted(d, ev) ==
    updateCompanySubscription(d, ev.customer, "free", "canceled")

\* the store after the handler's try block has run without a fault
webhookEffect(d, ev) ==
    IF ev.type = "checkout.session.completed" /\ ev.mode = "subscription"
    THEN onCheckoutCompleted(d, ev)
    ELSE IF ev.type = "customer.subscription.updated"
    THEN onSubscriptionUpdated(d, ev)
    ELSE IF ev.type = "customer.subscription.deleted"
    THEN onSubscriptionDeleted(d, ev)
    ELSE d

\* the try block calls the provider or the store
webhookAwaits(ev) ==
    \/ ev.type = "checkout.session.completed" /\ ev.mode = "subscription"
    \/ ev.type = "customer.subscription.updated" /\ planKeyOfPrice(ev.price) # "none"
    \/ ev.type = "customer.subscription.deleted"

\* An event arrives: constructEvent (400 on a bad signature), then the try
\* block; a fault of the provider call or of the UPDATE is caught and logged.
\* The handler reads nothing from the store, so its single statement is the
\* whole step.
WebhookHandle(p) ==
    \E ev \in Events :
        /\ FirstIdle(p)
        /\ nreq < MaxRequests
        /\ nreq' = nreq + 1
        /\ UNCHANGED <<journal, now>>
        /\ IF ~ev.sig
           THEN Respond(p, 400) /\ UNCHANGED db
           ELSE /\ res' = [res EXCEPT ![p] = 0]
                /\ pc' = [pc EXCEPT ![p] = "hook_ack"]
                /\ \E fault \in BOOLEAN :
                     IF fault /\ webhookAwaits(ev)
                     THEN /\ UNCHANGED db
                          /\ req' = [req EXCEPT ![p] =
                                [kind |-> "webhook", ev |-> ev, dbError |-> TRUE]]
                     ELSE /\ db' = webhookEffect(db, ev)
                          /\ req' = [req EXCEPT ![p] =
                                [kind |-> "webhook", ev |-> ev, dbError |-> FALSE]]

\* an acknowledgement that surfaces the failure of the plan sync
WebhookAckSurfacing(p) ==
    /\ pc[p] = "hook_ack"
    /\ UNCHANGED <<db, journal, nreq, now>>
    /\ Respond(p, IF req[p].dbError THEN 500 ELSE 200)

\* res.json({ received: true })
WebhookAck(p) ==
    /\ pc[p] = "hook_ack"
    /\ UNCHANGED <<db, journal, nreq, now>>
    /\ Respond(p, 200)

Webhook(p) ==
    \/ WebhookHandle(p)
    \/ WebhookAck(p)

(* ---------------------- specification: webhooks ------------------------ *)
InitWebhook ==
    /\ InitProcs
    /\ \E cust2 \in {0, 2} :
         db = [SeededDb(1, "active") EXCEPT !.companies[2].stripe_customer_id = cust2]

NextWebhook == \E p \in Procs : Webhook(p)

SpecWebhook == InitWebhook /\ [][NextWebhook]_vars

(* ------------- PUT /api/company/subscription (tiers draft) -------------- *)
\* the catalog of the draft that has the plan-update route
SUBSCRIPTION_PLANS_tiers ==
    [tier1 |-> [max_employees |-> 5],
     tier2 |-> [max_employees |-> 10],
     tier3 |-> [max_employees |-> 50]]

\* SQL NULL in an integer column
NULL == 0 - 1

\* Property names every object literal inherits from Object.prototype:
\* SUBSCRIPTION_PLANS[plan] is truthy for them and has no max_employees.
ObjectPrototypeKeys == {"constructor"}

\* req.body.plan; "" is a missing field
PutPlans == {"", "tier1", "tier2", "tier3", "gold"} \cup ObjectPrototypeKeys

\* !plan || !SUBSCRIPTION_PLANS[plan]
invalidPlan(plan) ==
    \/ plan = ""
    \/ plan \notin (DOMAIN SUBSCRIPTION_PLANS_tiers \cup ObjectPrototypeKeys)

\* SUBSCRIPTION_PLANS[plan].max_employees; undefined is bound as NULL
newMaxEmployees(plan) ==
    IF plan \in DOMAIN SUBSCRIPTION_PLANS_tiers
    THEN SUBSCRIPTION_PLANS_tiers[plan].max_employees
    ELSE NULL

PutSubscriptionStart(p) ==
    \E c \in CompanyIds, plan \in PutPlans :
        /\ Begin(p, [kind |-> "put", companyId |-> c, plan |-> plan], "put")
        /\ UNCHANGED <<db, journal, now>>

\* UPDATE companies SET subscription_plan = ?, max_employees = ? WHERE id = ?
PutSubscriptionUpdate(p) ==
    /\ pc[p] = "put"
    /\ UNCHANGED <<journal, nreq, now>>
    /\ \E fault \in BOOLEAN :
        LET c == req[p].companyId
            plan == req[p].plan
        IN IF invalidPlan(plan) THEN Respond(p, 400) /\ UNCHANGED db
           ELSE IF fault THEN Respond(p, 500) /\ UNCHANGED db
           ELSE /\ db' = IF c \in DOMAIN db.companies
                         THEN [db EXCEPT !.companies[c].subscription_plan = plan,
                                         !.companies[c].max_employees = newMaxEmployees(plan)]
                         ELSE db
                /\ Respond(p, 200)

PutSubscription(p) ==
    \/ PutSubscriptionStart(p)
    \/ PutSubscriptionUpdate(p)

(* --------------------- specification: plan update ---------------------- *)
\* a store written by the tiers draft: registration puts companies on tier1
InitPut ==
    /\ InitProcs
    /\ \E k \in {0, 1} :
         db = [SeededDb(k, "active") EXCEPT
                 !.companies[1].subscription_plan = "tier1",
                 !.companies[1].max_employees = SUBSCRIPTION_PLANS_tiers["tier1"].max_employees,
                 !.companies[2].subscription_plan = "tier1",
                 !.companies[2].max_employees = SUBSCRIPTION_PLANS_tiers["tier1"].max_employees]

NextPut == \E p \in Procs : PutSubscription(p)

SpecPut == InitPut /\ [][NextPut]_vars

(* ------------- specification: a new company fills its seats ------------ *)
\* the store after company 1 has registered and k add-employee requests with
\* cards 1..k were answered 201
RegisteredDb(k) ==
    LET d1 == InsertRow(EmptyDb, "companies", CompanyRow(1, "free", "active", 0))
        d2 == InsertRow(d1, "users", [company_id |-> 1, email |-> 1])
        d3 == InsertRow(d2, "kiosks", [company_id |-> 1, api_key |-> 1])
    IN AddEmployees(d3, 1, k)

InitSeats ==
    /\ InitProcs
    /\ db \in {EmptyDb} \cup {RegisteredDb(k) : k \in 0..FreeCap}

\* one request after the other: registrations and add-employee requests, no
\* plan change and no deletion
NextSeats ==
    \E p \in Procs :
        \/ /\ \A q \in Procs : pc[q] = "idle"
           /\ (RegisterStart(p) \/ PostEmployeesStart(p))
        \/ RegisterStep(p)
        \/ checkEmployeeLimitCompany(p)
        \/ checkEmployeeLimitCount(p)
        \/ PostEmployeesInsert(p)

SpecSeats == InitSeats /\ [][NextSeats]_vars

(* ------------- specification: registrations and taps ------------------- *)
\* registrations and kiosk taps share the one connection; company 1 has
\* registered and has one employee
InitRegisterTap ==
    /\ InitProcs
    /\ db = RegisteredDb(1)

NextRegisterTap ==
    \E p \in Procs : Register(p) \/ KioskTapStart(p) \/ KioskTapStep(p)

SpecRegisterTap == InitRegisterTap /\ [][NextRegisterTap]_vars

(* ----------- POST /api/subscription/create-checkout-session ------------ *)
\* customer.id of stripe.customers.create: the provider gives every customer
\* it creates a new id; the n-th request's customer gets the n-th id after
\* those of Customers
NewCustomerId(n) == Cardinality(Customers) + n

\* what the model keeps of an answered checkout request: the customer and
\* the price the session was created for (0 and NoPrice without a session)
\* and the customer the request created at the provider (0 when it created
\* none)
CheckoutDone(r, session) ==
    [kind |-> "checkout_done", companyId |-> r.companyId,
     customer |-> IF session THEN r.customerId ELSE 0,
     price |-> IF session THEN r.priceId ELSE NoPrice,
     created |-> r.created]

\* the companies an event of this customer updates: WHERE stripe_customer_id = ?
companiesOfCustomer(d, customerId) ==
    {c \in DOMAIN d.companies :
        customerId # 0 /\ d.companies[c].stripe_customer_id = customerId}

\* authenticateToken passed: req.user.companyId is the token's company
CheckoutStart(p) ==
    \E c \in CompanyIds, priceId \in Prices :
        /\ Begin(p, [kind |-> "checkout", companyId |-> c, priceId |-> priceId,
                     customerId |-> 0, created |-> 0, no |-> nreq + 1],
                 "co_select")
        /\ UNCHANGED <<db, journal, now>>

\* SELECT stripe_customer_id FROM companies WHERE id = ?; a missing row makes
\* company.stripe_customer_id throw, which the catch block answers with 500
CheckoutSelect(p) ==
    /\ pc[p] = "co_select"
    /\ UNCHANGED <<db, journal, nreq, now>>
    /\ \E fault \in BOOLEAN :
        IF fault \/ req[p].companyId \notin DOMAIN db.companies
        THEN Answer(p, 500, CheckoutDone(req[p], FALSE))
        ELSE LET customerId == db.companies[req[p].companyId].stripe_customer_id
             IN Goto(p, IF customerId = 0 THEN "co_customer" ELSE "co_session",
                     [req[p] EXCEPT !.customerId = customerId])

\* stripe.customers.create({email, metadata})
CheckoutCustomer(p) ==
    /\ pc[p] = "co_customer"
    /\ UNCHANGED <<db, journal, nreq, now>>
    /\ \E fault \in BOOLEAN :
        IF fault THEN Answer(p, 500, CheckoutDone(req[p], FALSE))
        ELSE Goto(p, "co_update",
                  [req[p] EXCEPT !.customerId = NewCustomerId(req[p].no),
                                 !.created = NewCustomerId(req[p].no)])

\* an UPDATE that is skipped
CheckoutUpdateSkipped(p) ==
    /\ pc[p] = "co_update"
    /\ UNCHANGED <<journal, nreq, now>>
    /\ \E fault \in BOOLEAN :
        IF fault THEN Answer(p, 500, CheckoutDone(req[p], FALSE)) /\ UNCHANGED db
        ELSE /\ db' = db
             /\ Goto(p, "co_session", req[p])

\* UPDATE companies SET stripe_customer_id = ? WHERE id = ?
CheckoutUpdate(p) ==
    /\ pc[p] = "co_update"
    /\ UNCHANGED <<journal, nreq, now>>
    /\ \E fault \in BOOLEAN :
        IF fault THEN Answer(p, 500, CheckoutDone(req[p], FALSE)) /\ UNCHANGED db
        ELSE /\ db' = [db EXCEPT !.companies[req[p].companyId].stripe_customer_id =
                                    req[p].customerId]
             /\ Goto(p, "co_session", req[p])

\* stripe.checkout.sessions.create({customer: customerId, ...}), then
\* res.json({id: session.id})
CheckoutSession(p) ==
    /\ pc[p] = "co_session"
    /\ UNCHANGED <<db, journal, nreq, now>>
    /\ \E fault \in BOOLEAN :
        IF fault THEN Answer(p, 500, CheckoutDone(req[p], FALSE))
        ELSE Answer(p, 200, CheckoutDone(req[p], TRUE))

CheckoutStep(p) ==
    \/ CheckoutSelect(p)
    \/ CheckoutCustomer(p)
    \/ CheckoutUpdate(p)
    \/ CheckoutSession(p)

(* ------------- specification: checkout sessions, overlapping ------------ *)
\* company 1 has the customer reference 1, company 2 has none
InitCheckout ==
    /\ InitProcs
    /\ db \in {SeededDb(0, status2) : status2 \in {"active", "canceled"}}

NextCheckout == \E p \in Procs : CheckoutStart(p) \/ CheckoutStep(p)

SpecCheckout == InitCheckout /\ [][NextCheckout]_vars

(* ------------- specification: checkout sessions, one at a time ---------- *)
NextCheckoutSeq ==
    \E p \in Procs :
        \/ (\A q \in Procs : pc[q] = "idle") /\ CheckoutStart(p)
        \/ CheckoutStep(p)

SpecCheckoutSeq == InitCheckout /\ [][NextCheckoutSeq]_vars

(* ------------- specification: the shared connection -------------------- *)
\* every route that writes through the one connection of startServer:
\* registrations, add-employee requests, taps and webhook events, overlapping;
\* company 1 has registered, has one employee and the customer reference 1
InitShared ==
    /\ InitProcs
    /\ db = [RegisteredDb(1) EXCEPT !.companies[1].stripe_customer_id = 1]

NextShared ==
    \E p \in Procs :
        \/ Register(p)
        \/ PostEmployees(p)
        \/ KioskTapStart(p)
        \/ KioskTapStep(p)
        \/ Webhook(p)

SpecShared == InitShared /\ [][NextShared]_vars

(* ------------- specification: webhooks of a grown company -------------- *)
\* company 1 has the customer reference 1, was moved to tier2 by a checkout
\* and has since added one employee more than tier1 allows
InitDowngrade ==
    /\ InitProcs
    /\ db = [RegisteredDb(SUBSCRIPTION_PLANS["tier1"].max_employees + 1) EXCEPT
                !.companies[1].stripe_customer_id = 1,
                !.companies[1].subscription_plan = "tier2",
                !.companies[1].max_employees = SUBSCRIPTION_PLANS["tier2"].max_employees]

NextDowngrade == \E p \in Procs : Webhook(p)

SpecDowngrade == InitDowngrade /\ [][NextDowngrade]_vars

(* ---------------- GET and DELETE /api/employees ------------------------- *)
\* req.params.id: ids of the two seeded employees and the next one
DeleteIds == 1..3

\* authenticateToken has accepted a token carrying companyId c
DeleteEmployeeStart(p) ==
    \E c \in CompanyIds, id \in DeleteIds :
        /\ Begin(p, [kind |-> "delete", companyId |-> c, id |-> id], "delete")
        /\ UNCHANGED <<db, journal, now>>

\* a DELETE that selects by id alone
employeesAfterDeleteAnyTenant(d, id, company_id) ==
    [e \in {x \in DOMAIN d.employees : x # id} |-> d.employees[e]]

\* DELETE FROM employees WHERE id = ? AND company_id = ?
employeesAfterDelete(d, id, company_id) ==
    [e \in {x \in DOMAIN d.employees :
                ~(x = id /\ d.employees[x].company_id = company_id)}
        |-> d.employees[e]]

\* the handler's DELETE and its response: 200 whatever the statement removed
DeleteEmployeeRun(p) ==
    /\ pc[p] = "delete"
    /\ UNCHANGED <<journal, nreq, now>>
    /\ \E fault \in BOOLEAN :
        LET done == [kind |-> "deleted", companyId |-> req[p].companyId,
                     id |-> req[p].id]
        IN IF fault THEN Answer(p, 500, done) /\ UNCHANGED db
           ELSE /\ db' = [db EXCEPT !.employees =
                            employeesAfterDelete(db, req[p].id, req[p].companyId)]
                /\ Answer(p, 200, done)

DeleteEmployee(p) ==
    \/ DeleteEmployeeStart(p)
    \/ DeleteEmployeeRun(p)

GetEmployeesStart(p) ==
    \E c \in CompanyIds :
        /\ Begin(p, [kind |-> "get", companyId |-> c], "get")
        /\ UNCHANGED <<db, journal, now>>

\* a listing without the WHERE clause
employeesOfAnyCompany(d, company_id) ==
    {[id |-> e, company_id |-> d.employees[e].company_id,
      name |-> d.employees[e].name, nfc_card_id |-> d.employees[e].nfc_card_id] :
        e \in DOMAIN d.employees}

\* SELECT * FROM employees WHERE company_id = ? ORDER BY name: the rows of
\* the answer (their order is not kept)
employeesOfCompany(d, company_id) ==
    {[id |-> e, company_id |-> d.employees[e].company_id,
      name |-> d.employees[e].name, nfc_card_id |-> d.employees[e].nfc_card_id] :
        e \in {x \in DOMAIN d.employees : d.employees[x].company_id = company_id}}

GetEmployeesRun(p) ==
    /\ pc[p] = "get"
    /\ UNCHANGED <<db, journal, nreq, now>>
    /\ \E fault \in BOOLEAN :
        IF fault
        THEN Answer(p, 500, [kind |-> "listed", companyId |-> req[p].companyId,
                             employees |-> {}])
        ELSE Answer(p, 200, [kind |-> "listed", companyId |-> req[p].companyId,
                             employees |-> employeesOfCompany(db, req[p].companyId)])

GetEmployees(p) ==
    \/ GetEmployeesStart(p)
    \/ GetEmployeesRun(p)

(* ----------------------- specification: roster routes ------------------- *)
InitRoster ==
    /\ InitProcs
    /\ db = SeededDb(1, "active")

NextRoster ==
    \E p \in Procs : PostEmployees(p) \/ DeleteEmployee(p) \/ GetEmployees(p)

SpecRoster == InitRoster /\ [][NextRoster]_vars

(* ------------- specification: roster changes and taps ------------------ *)
\* employee 1 (company 1, card 1) has tapped once; in the second store the
\* employee has been deleted since
InitRosterTap ==
    /\ InitProcs
    /\ \E deleted \in BOOLEAN :
         LET d == TappedOnce(SeededDb(1, "active"))
         IN db = IF deleted
                 THEN [d EXCEPT !.employees = employeesAfterDelete(d, 1, 1)]
                 ELSE d

RosterTapStep(p) ==
    \/ checkEmployeeLimitCompany(p)
    \/ checkEmployeeLimitCount(p)
    \/ PostEmployeesInsert(p)
    \/ DeleteEmployeeRun(p)
    \/ KioskTapStep(p)

\* add-employee requests, deletions and taps, overlapping
NextRosterTap ==
    \E p \in Procs :
        \/ PostEmployeesStart(p)
        \/ DeleteEmployeeStart(p)
        \/ KioskTapStart(p)
        \/ RosterTapStep(p)

SpecRosterTap == InitRosterTap /\ [][NextRosterTap]_vars

\* the same requests, one at a time
NextRosterTapSeq ==
    \E p \in Procs :
        \/ /\ \A q \in Procs : pc[q] = "idle"
           /\ (PostEmployeesStart(p) \/ DeleteEmployeeStart(p) \/ KioskTapStart(p))
        \/ RosterTapStep(p)

SpecRosterTapSeq == InitRosterTap /\ [][NextRosterTapSeq]_vars

(* ---------------- startServer and setupDatabase ----------------------- *)
\* The drafts of database.js: "migrations" creates companies with its base
\* columns and adds four columns behind columnExists (part_004:1-96);
\* "guarded" adds three and catches a failing ALTER TABLE (part_004:97-207);
\* "latest" creates companies with three more columns and alters nothing
\* (part_005).
Drafts == {"migrations", "guarded", "latest"}

TableNames == {"companies", "users", "kiosks", "employees", "attendance_logs"}

\* the tables in the order setupDatabase creates them after companies
OtherTables == <<"users", "kiosks", "employees", "attendance_logs">>

\* ALTER TABLE companies ADD COLUMN ... DEFAULT ..., in the draft's order
Migrations(draft) ==
    IF draft = "migrations"
    THEN <<[column |-> "subscription_plan", default |-> "free"],
           [column |-> "max_employees", default |-> "5"],
           [column |-> "subscription_status", default |-> "active"],
           [column |-> "stripe_customer_id", default |-> "NULL"]>>
    ELSE IF draft = "guarded"
    THEN <<[column |-> "subscription_plan", default |-> "tier1"],
           [column |-> "max_employees", default |-> "5"],
           [column |-> "subscription_status", default |-> "active"]>>
    ELSE << >>

\* columns of CREATE TABLE IF NOT EXISTS companies besides id, name and
\* created_at, with their defaults
CreatedColumns(draft) ==
    IF draft = "latest"
    THEN <<[column |-> "subscription_plan", default |-> "tier1"],
           [column |-> "max_employees", default |-> "5"],
           [column |-> "subscription_status", default |-> "active"]>>
    ELSE << >>

ColumnsOf(list) == {list[i].column : i \in DOMAIN list}

\* the server process
Main == 1

\* the schema the draft's setupDatabase builds on an empty store
TargetColumns(draft) == ColumnsOf(Migrations(draft)) \cup ColumnsOf(CreatedColumns(draft))

UpToDate(d, draft) ==
    /\ d.tables = TableNames
    /\ TargetColumns(draft) \subseteq d.columns

\* a companies row of a store with the given columns: every column holds a
\* value that is not the column's default
StoredRow(columns) == [col \in columns \cup {"name"} |-> "stored"]

\* stores the server may be started on: empty, an earlier schema with or
\* without a company, or a schema with every column of the drafts
SetupStores ==
    {[tables |-> {}, columns |-> {}, companies |-> << >>]}
    \cup UNION {
            {[tables |-> t, columns |-> cs, companies |-> r] :
                t \in {{"companies"}, TableNames},
                r \in {<< >>, <<StoredRow(cs)>>}} :
            cs \in {{}, {"subscription_plan"},
                    {"subscription_plan", "max_employees", "subscription_status"},
                    {"subscription_plan", "max_employees", "subscription_status",
                     "stripe_customer_id"}}}

\* a CREATE TABLE that replaces the table
createTableReplacing(d, table, created) ==
    [d EXCEPT !.tables = @ \cup {table},
              !.columns = IF table = "companies" THEN ColumnsOf(created) ELSE @,
              !.companies = IF table = "companies" THEN << >> ELSE @]

\* CREATE TABLE IF NOT EXISTS: an existing table is left as it is
createTable(d, table, created) ==
    IF table \in d.tables THEN d
    ELSE [d EXCEPT !.tables = @ \cup {table},
                   !.columns = IF table = "companies" THEN ColumnsOf(created) ELSE @]

\* columns.some(column => column.name === columnName)
columnExists(d, columnName) == columnName \in d.columns

\* ALTER TABLE companies ADD COLUMN: every row gets the default
addColumn(d, m) ==
    [d EXCEPT !.columns = d.columns \cup {m.column},
              !.companies = [i \in DOMAIN d.companies |->
                    [col \in DOMAIN d.companies[i] \cup {m.column} |->
                        IF col = m.column THEN m.default
                        ELSE d.companies[i][col]]]]

\* the unhandled rejection of startServer: nothing after the failed await runs
Crash(p) == Goto(p, "crashed", [req[p] EXCEPT !.failed = TRUE])

\* where setupDatabase goes after its i-th migration
AfterMigration(p, i, r) ==
    IF i < Len(Migrations(r.draft))
    THEN Goto(p, "setup_exists", [r EXCEPT !.step = i + 1])
    ELSE Goto(p, "setup_tables", [r EXCEPT !.step = 1])

\* node index.js: the process starts (again)
StartServer(p) ==
    /\ p = Main
    /\ pc[p] \in {"idle", "crashed", "listening"}
    /\ nreq < MaxRequests
    /\ nreq' = nreq + 1
    /\ Goto(p, "open", [req[p] EXCEPT !.failed = FALSE, !.step = 1])
    /\ UNCHANGED <<db, journal, now>>

\* open(...) and PRAGMA journal_mode = WAL
OpenStore(p) ==
    /\ pc[p] = "open"
    /\ UNCHANGED <<db, journal, nreq, now>>
    /\ \E fault \in BOOLEAN :
        IF fault THEN Crash(p) ELSE Goto(p, "setup_companies", req[p])

\* CREATE TABLE IF NOT EXISTS companies
SetupCompanies(p) ==
    /\ pc[p] = "setup_companies"
    /\ UNCHANGED <<journal, nreq, now>>
    /\ \E fault \in BOOLEAN :
        IF fault THEN Crash(p) /\ UNCHANGED db
        ELSE /\ db' = createTable(db, "companies", CreatedColumns(req[p].draft))
             /\ IF Migrations(req[p].draft) = << >>
                THEN Goto(p, "setup_tables", req[p])
                ELSE Goto(p, "setup_exists", req[p])

\* if (!(await columnExists(db, 'companies', column)))
SetupColumnExists(p) ==
    /\ pc[p] = "setup_exists"
    /\ UNCHANGED <<db, journal, nreq, now>>
    /\ \E fault \in BOOLEAN :
        LET m == Migrations(req[p].draft)[req[p].step]
        IN IF fault THEN Crash(p)
           ELSE IF columnExists(db, m.column)
           THEN AfterMigration(p, req[p].step, req[p])
           ELSE Goto(p, "setup_alter", req[p])

\* await db.run("ALTER TABLE companies ADD COLUMN ..."); the guarded draft
\* catches and logs its failure
SetupAddColumn(p) ==
    /\ pc[p] = "setup_alter"
    /\ UNCHANGED <<journal, nreq, now>>
    /\ \E fault \in BOOLEAN :
        LET m == Migrations(req[p].draft)[req[p].step]
        IN IF fault \/ columnExists(db, m.column)
           THEN /\ UNCHANGED db
                /\ IF req[p].draft = "guarded"
                   THEN AfterMigration(p, req[p].step,
                                       [req[p] EXCEPT !.failed = TRUE])
                   ELSE Crash(p)
           ELSE /\ db' = addColumn(db, m)
                /\ AfterMigration(p, req[p].step, req[p])

\* CREATE TABLE IF NOT EXISTS users, kiosks, employees, attendance_logs
SetupTable(p) ==
    /\ pc[p] = "setup_tables"
    /\ UNCHANGED <<journal, nreq, now>>
    /\ \E fault \in BOOLEAN :
        IF fault THEN Crash(p) /\ UNCHANGED db
        ELSE /\ db' = createTable(db, OtherTables[req[p].step], << >>)
             /\ IF req[p].step < Len(OtherTables)
                THEN Goto(p, "setup_tables", [req[p] EXCEPT !.step = @ + 1])
                ELSE Goto(p, "listen", req[p])

\* the routes are registered and httpServer.listen(port) is called;
\* completed counts the runs of setupDatabase in which no statement failed
Listen(p) ==
    /\ pc[p] = "listen"
    /\ UNCHANGED <<db, journal, nreq, now>>
    /\ Goto(p, "listening",
            [req[p] EXCEPT !.completed = IF req[p].failed THEN @ ELSE @ + 1])

startServer(p) ==
    \/ StartServer(p)
    \/ OpenStore(p)
    \/ SetupCompanies(p)
    \/ SetupColumnExists(p)
    \/ SetupAddColumn(p)
    \/ SetupTable(p)
    \/ Listen(p)

(* ----------------------- specification: start-up ----------------------- *)
InitSetup ==
    /\ pc = [p \in Procs |-> "idle"]
    /\ res = [p \in Procs |-> 0]
    /\ nreq = 0
    /\ journal = << >>
    /\ now = 0
    /\ db \in SetupStores
    /\ \E draft \in Drafts :
         req = [p \in Procs |->
                  IF p = Main
                  THEN [kind |-> "startServer", draft |-> draft, step |-> 1,
                        failed |-> FALSE, completed |-> 0]
                  ELSE NoReq]

NextSetup == startServer(Main)

SpecSetup == InitSetup /\ [][NextSetup]_vars

(* ------------------------------ claims --------------------------------- *)
OtherTablesUnchanged ==
    /\ db'.companies = db.companies
    /\ db'.users = db.users
    /\ db'.kiosks = db.kiosks
    /\ db'.attendance_logs = db.attendance_logs

\* p takes a step of its add-employee request
AddStep(p) == pc[p] \in {"gate_company", "gate_count", "insert"} /\ pc'[p] # pc[p]

\* C1: every company has employee_count <= max_employees or is not active,
\* also under concurrent add-employee requests for the same company.
SeatLimitInvariant ==
    \A c \in DOMAIN db.companies :
        \/ EmployeeCount(db, c) <= db.companies[c].max_employees
        \/ db.companies[c].subscription_status # "active"

\* C2: the gate answers 403 without letting the request reach the insert
\* exactly when the company is not active (or missing) or its employee count
\* is >= max_employees; otherwise the request goes on to the handler.  A read
\* that fails is answered 500.
GateRejectsExactlyOverLimit ==
    [][\A p \in Procs :
        LET c == req[p].companyId
            inactive == \/ c \notin DOMAIN db.companies
                        \/ db.companies[c].subscription_status # "active"
            full == EmployeeCount(db, c) >= req[p].max_employees
        IN /\ (pc[p] = "gate_company" /\ pc'[p] # pc[p]) =>
                /\ inactive => pc'[p] = "idle" /\ res'[p] \in {403, 500}
                /\ ~inactive => \/ pc'[p] = "gate_count"
                                \/ pc'[p] = "idle" /\ res'[p] = 500
           /\ (pc[p] = "gate_count" /\ pc'[p] # pc[p]) =>
                /\ full => pc'[p] = "idle" /\ res'[p] \in {403, 500}
                /\ ~full => \/ pc'[p] = "insert"
                            \/ pc'[p] = "idle" /\ res'[p] \in {400, 500}
      ]_vars

\* with every company active, the gate has turned a request of company 1
\* away at the cap and has let one of company 2 through to the insert
GateWitness ==
    \E p, q \in Procs :
        /\ pc[p] = "idle" /\ res[p] = 403
        /\ pc[q] = "insert" /\ req[q].companyId = 2
        /\ EmployeeCount(db, 1) = FreeCap
        /\ EmployeeCount(db, 2) < db.companies[2].max_employees
        /\ \A c \in DOMAIN db.companies : db.companies[c].subscription_status = "active"

\* C3: a 201 of POST /api/employees adds exactly one employees row (caller's
\* company, given name and card) and changes nothing else; every other step
\* of the request, and so every rejection, changes no row of any table.
AddEmployeeFrame ==
    [][\A p \in Procs : AddStep(p) =>
        IF pc'[p] = "idle" /\ res'[p] = 201
        THEN /\ OtherTablesUnchanged
             /\ \E id \in DOMAIN db'.employees \ DOMAIN db.employees :
                   /\ DOMAIN db'.employees = DOMAIN db.employees \cup {id}
                   /\ \A e \in DOMAIN db.employees : db'.employees[e] = db.employees[e]
                   /\ db'.employees[id] = [company_id |-> req[p].companyId,
                                           name |-> req[p].name,
                                           nfc_card_id |-> req[p].nfc_card_id]
        ELSE db' = db
      ]_vars

\* one request was answered 201 and another was rejected as a duplicate card
AddEmployeeFrameWitness ==
    \E p, q \in Procs :
        /\ pc[p] = "idle" /\ res[p] = 201
        /\ pc[q] = "idle" /\ res[q] = 409
        /\ EmployeeCount(db, 1) = 1

\* the log rows of employee e, as the sequence of their event types in
\* insertion (id) order
RECURSIVE EventsUpTo(_, _)
EventsUpTo(e, n) ==
    IF n = 0 THEN << >>
    ELSE IF n \in DOMAIN db.attendance_logs /\ db.attendance_logs[n].employee_id = e
         THEN Append(EventsUpTo(e, n - 1), db.attendance_logs[n].event_type)
         ELSE EventsUpTo(e, n - 1)

EventsOf(e) == EventsUpTo(e, db.sqlite_sequence.attendance_logs)

\* C4: over non-overlapping taps, an employee's log rows are clock-in first
\* and then strictly alternate, whatever the time between the taps.
TapsAlternate ==
    \A e \in DOMAIN db.employees :
        LET ev == EventsOf(e)
        IN \A i \in 1..Len(ev) :
             ev[i] = (IF i % 2 = 1 THEN "clock-in" ELSE "clock-out")

\* C5: a tap resolves the employee with the kiosk's company_id and the
\* presented card, or answers 404 when that company has none; every log row
\* carries the company of its kiosk and of its employee.
TapTenantIsolation ==
    /\ [][\A p \in Procs : (pc[p] = "tap_employee" /\ pc'[p] # pc[p]) =>
            LET own == {e \in DOMAIN db.employees :
                           /\ db.employees[e].company_id
                                = db.kiosks[req[p].kiosk_id].company_id
                           /\ db.employees[e].nfc_card_id = req[p].nfc_card_id}
            IN IF own = {}
               THEN pc'[p] = "idle" /\ res'[p] \in {404, 500}
               ELSE \/ pc'[p] = "idle" /\ res'[p] = 500
                    \/ pc'[p] = "tap_last" /\ req'[p].employee_id \in own
       ]_vars
    /\ [](\A l \in DOMAIN db.attendance_logs :
            LET row == db.attendance_logs[l]
            IN /\ db.kiosks[row.kiosk_id].company_id = row.company_id
               /\ db.employees[row.employee_id].company_id = row.company_id
               /\ db.employees[row.employee_id].nfc_card_id = row.nfc_card_id)

\* Card 1 is held in both tenants and its tap at kiosk 2 was logged under
\* company 2; card 2 is held in company 1 only, so the 404 answered its tap at
\* kiosk 2 (every other tap of a card finds its employee).
TapTenantWitness ==
    /\ CardInUse(db, 1, 1) /\ CardInUse(db, 2, 1)
    /\ CardInUse(db, 1, 2) /\ ~CardInUse(db, 2, 2)
    /\ \E l \in DOMAIN db.attendance_logs :
        /\ db.attendance_logs[l].company_id = 2
        /\ db.attendance_logs[l].nfc_card_id = 1
    /\ \E p \in Procs : pc[p] = "idle" /\ res[p] = 404

\* C6: when no registration is in progress, every company has a user and a
\* kiosk, and every user and kiosk references an existing company.
NoPartialTenant ==
    (\A p \in Procs : pc[p] \notin RegisterLabels) =>
        /\ \A c \in DOMAIN db.companies :
             /\ \E u \in DOMAIN db.users : db.users[u].company_id = c
             /\ \E k \in DOMAIN db.kiosks : db.kiosks[k].company_id = c
        /\ \A u \in DOMAIN db.users : db.users[u].company_id \in DOMAIN db.companies
        /\ \A k \in DOMAIN db.kiosks : db.kiosks[k].company_id \in DOMAIN db.companies

BillingFields(row) ==
    <<row.subscription_plan, row.max_employees, row.subscription_status>>

\* C7: applying a verified webhook event twice in a row leaves every company
\* with the same (plan, max_employees, status) as applying it once.
WebhookIdempotent ==
    \A ev \in {e \in Events : e.sig} :
        LET once == webhookEffect(db, ev)
            twice == webhookEffect(once, ev)
        IN \A c \in DOMAIN db.companies :
             BillingFields(twice.companies[c]) = BillingFields(once.companies[c])

\* the same plan-changing event has been applied twice and awaits its two
\* acknowledgements
WebhookReplayWitness ==
    \E p, q \in Procs :
        /\ p # q
        /\ pc[p] = "hook_ack" /\ pc[q] = "hook_ack"
        /\ req[p] = req[q]
        /\ ~req[p].dbError
        /\ req[p].ev.type = "checkout.session.completed"
        /\ req[p].ev.mode = "subscription"
        /\ req[p].ev.customer = 1
        /\ planKeyOfPrice(req[p].ev.price) = "tier1"
        /\ db.companies[1].subscription_plan = "tier1"

UnmatchedPrice(ev) ==
    /\ ev.sig
    /\ \/ ev.type = "checkout.session.completed"
       \/ ev.type = "customer.subscription.updated"
    /\ \A k \in PlanKeys : SUBSCRIPTION_PLANS[k].priceId # ev.price

\* C9: a verified checkout-completed or subscription-updated event whose price
\* matches no plan changes no company and is acknowledged with 200.
UnmatchedPriceIgnored ==
    [][\A p \in Procs :
        /\ (pc'[p] = "hook_ack" /\ pc[p] # "hook_ack"
                /\ UnmatchedPrice(req'[p].ev)) => db' = db
        /\ (pc[p] = "hook_ack" /\ pc'[p] # pc[p]) =>
              /\ db' = db
              /\ pc'[p] = "idle" /\ res'[p] = 200
      ]_vars

\* an update event with an unknown price for the customer of company 1 has
\* been handled after company 1 had moved off the free plan
UnmatchedPriceWitness ==
    \E p \in Procs :
        /\ pc[p] = "hook_ack"
        /\ UnmatchedPrice(req[p].ev)
        /\ req[p].ev.customer = 1
        /\ db.companies[1].subscription_plan # "free"

\* C10: a verified subscription-deleted event for customer X whose update is
\* not hit by a storage fault sets the companies holding reference X to
\* (free, 5, canceled) and leaves every other company unchanged.
SubscriptionDeletedDowngrades ==
    [][\A p \in Procs :
        (/\ pc[p] # "hook_ack" /\ pc'[p] = "hook_ack"
         /\ req'[p].ev.type = "customer.subscription.deleted"
         /\ ~req'[p].dbError) =>
            /\ DOMAIN db'.companies = DOMAIN db.companies
            /\ \A c \in DOMAIN db.companies :
                 IF db.companies[c].stripe_customer_id = req'[p].ev.customer
                 THEN /\ BillingFields(db'.companies[c]) = <<"free", 5, "canceled">>
                      /\ db'.companies[c].name = db.companies[c].name
                      /\ db'.companies[c].stripe_customer_id
                           = db.companies[c].stripe_customer_id
                 ELSE db'.companies[c] = db.companies[c]
      ]_vars

\* company 1 was on a paid plan and has been downgraded by a deleted event
\* for its customer reference; company 2 is as it was seeded
SubscriptionDeletedWitness ==
    \E p \in Procs :
        /\ pc[p] = "hook_ack"
        /\ req[p].ev.type = "customer.subscription.deleted"
        /\ req[p].ev.customer = 1
        /\ ~req[p].dbError
        /\ nreq >= 2
        /\ BillingFields(db.companies[1]) = <<"free", 5, "canceled">>
        /\ BillingFields(db.companies[2]) = <<"free", 5, "active">>

\* C11: a webhook request with a verified signature is answered 200, also
\* when the provider lookup or the UPDATE of its plan sync failed (the
\* acknowledgement is the one step left to the handler, nothing blocks it and
\* it answers 200); a request whose signature does not verify is answered 400
\* and changes no company.
WebhookAlwaysAcknowledged ==
    /\ [][\A p \in Procs :
            /\ (FirstIdle(p) /\ nreq' # nreq /\ pc'[p] = "idle") =>
                  /\ res'[p] = 400
                  /\ db' = db
            /\ (pc[p] = "idle" /\ pc'[p] = "hook_ack") =>
                  /\ req'[p].ev.sig
                  /\ req'[p].dbError => db' = db
            /\ (pc[p] = "hook_ack" /\ pc'[p] # pc[p]) =>
                  pc'[p] = "idle" /\ res'[p] = 200
       ]_vars
    /\ [](\A p \in Procs : pc[p] = "hook_ack" => ENABLED WebhookAck(p))

\* the UPDATE of a deleted event for company 1's customer has failed and the
\* event awaits its acknowledgement; a badly signed request was answered 400
WebhookAckWitness ==
    \E p, q \in Procs :
        /\ pc[p] = "hook_ack" /\ req[p].dbError
        /\ req[p].ev.type = "customer.subscription.deleted"
        /\ req[p].ev.customer = 1
        /\ db.companies[1].subscription_status = "active"
        /\ pc[q] = "idle" /\ res[q] = 400

\* the employees rows of company c, by id
RowsOf(d, c) ==
    [e \in {x \in DOMAIN d.employees : d.employees[x].company_id = c}
        |-> d.employees[e]]

\* p takes the step of its DELETE /api/employees/:id request
DeleteStep(p) == pc[p] = "delete" /\ pc'[p] # pc[p]

\* C12: a DELETE /api/employees/:id of a user of company A removes no
\* employee of another company, whatever the id: the employees of every other
\* company are the same rows after the request as before.
NoCrossTenantDelete ==
    [][\A p \in Procs : DeleteStep(p) =>
            \A c \in CompanyIds \ {req[p].companyId} : RowsOf(db', c) = RowsOf(db, c)
      ]_vars

\* a user of company 1 asked to delete employee 2, who belongs to company 2;
\* the request was answered and employee 2 is still there
NoCrossTenantDeleteWitness ==
    \E p \in Procs :
        /\ pc[p] = "idle" /\ res[p] = 200
        /\ req[p].kind = "deleted"
        /\ req[p].companyId = 1 /\ req[p].id = 2
        /\ 2 \in DOMAIN db.employees /\ db.employees[2].company_id = 2

\* C13: DELETE /api/employees/:id answers 200 only when an employee with that
\* id was in the caller's company and has been removed; when the caller's
\* company has no employee with that id it answers 404 (500 on a storage
\* fault) and changes no row.
DeleteAnswersNotFound ==
    [][\A p \in Procs : DeleteStep(p) =>
            LET mine == /\ req[p].id \in DOMAIN db.employees
                        /\ db.employees[req[p].id].company_id = req[p].companyId
            IN /\ res'[p] = 200 => mine /\ req[p].id \notin DOMAIN db'.employees
               /\ ~mine => res'[p] \in {404, 500} /\ db' = db
      ]_vars

\* C19: a 201 of POST /api/employees puts a row with the given name and card
\* into the caller's company's listing and into no other company's; a 200 of
\* DELETE /api/employees/:id takes the row with that id out of the caller's
\* listing; a 200 of GET /api/employees carries exactly the caller's
\* company's employees rows.
RosterRoundTrip ==
    [][\A p \in Procs :
        /\ (pc[p] = "insert" /\ pc'[p] = "idle" /\ res'[p] = 201) =>
              \E r \in employeesOfCompany(db', req[p].companyId) :
                 /\ r.name = req[p].name /\ r.nfc_card_id = req[p].nfc_card_id
                 /\ r.id \notin DOMAIN db.employees
                 /\ \A c \in CompanyIds \ {req[p].companyId} :
                       \A o \in employeesOfCompany(db', c) : o.id # r.id
        /\ (DeleteStep(p) /\ res'[p] = 200) =>
              \A c \in CompanyIds :
                 \A r \in employeesOfCompany(db', c) :
                    r.id = req[p].id => (c # req[p].companyId /\ r.company_id = c)
        /\ (pc[p] = "get" /\ pc'[p] = "idle" /\ res'[p] = 200) =>
              LET rows == req'[p].employees
              IN /\ \A r \in rows :
                      /\ r.id \in DOMAIN db.employees
                      /\ r.company_id = req[p].companyId
                      /\ db.employees[r.id] = [company_id |-> r.company_id,
                                               name |-> r.name,
                                               nfc_card_id |-> r.nfc_card_id]
                 /\ \A e \in DOMAIN db.employees :
                      db.employees[e].company_id = req[p].companyId =>
                         \E r \in rows : r.id = e
      ]_vars

\* company 1's listing shows an employee added after the seeding, and
\* company 2's employee is not in it
RosterRoundTripWitness ==
    \E p \in Procs :
        /\ pc[p] = "idle" /\ res[p] = 200
        /\ req[p].kind = "listed" /\ req[p].companyId = 1
        /\ \E r \in req[p].employees : r.nfc_card_id > FreeCap
        /\ \E e \in DOMAIN db.employees : db.employees[e].company_id = 2
        /\ \A r \in req[p].employees : r.company_id = 1

\* C14: the attendance log is append-only: no step of any request removes a
\* log row or changes a field of one.
LogAppendOnly ==
    [][\A l \in DOMAIN db.attendance_logs :
            /\ l \in DOMAIN db'.attendance_logs
            /\ db'.attendance_logs[l] = db.attendance_logs[l]
      ]_vars

\* C15: no two employees of one company hold the same card, while employees
\* of different companies may; an add-employee request that reaches the INSERT
\* with a card already held in the caller's company inserts nothing and is
\* answered 409 (500 only on a storage fault), and with a card held in
\* another company only it is accepted with 201.
CardUniquePerCompany ==
    /\ [](\A e, f \in DOMAIN db.employees :
            (e # f /\ db.employees[e].company_id = db.employees[f].company_id)
                => db.employees[e].nfc_card_id # db.employees[f].nfc_card_id)
    /\ [][\A p \in Procs : (pc[p] = "insert" /\ pc'[p] # pc[p]) =>
            LET held == \E e \in DOMAIN db.employees :
                            /\ db.employees[e].company_id = req[p].companyId
                            /\ db.employees[e].nfc_card_id = req[p].nfc_card_id
            IN IF held THEN res'[p] \in {409, 500} /\ db' = db
               ELSE res'[p] \in {201, 500}
       ]_vars
    /\ [](\A p \in Procs : pc[p] = "insert" =>
            LET held == \E e \in DOMAIN db.employees :
                            /\ db.employees[e].company_id = req[p].companyId
                            /\ db.employees[e].nfc_card_id = req[p].nfc_card_id
            IN ENABLED (PostEmployeesInsert(p)
                          /\ res'[p] = (IF held THEN 409 ELSE 201)))

\* company 1's only employee was added with card 1, which company 2's
\* employee holds too, and a request with a card in use was answered 409
CardUniqueWitness ==
    /\ EmployeeCount(db, 1) = 1
    /\ \E e, f \in DOMAIN db.employees :
          /\ db.employees[e].company_id = 1 /\ db.employees[f].company_id = 2
          /\ db.employees[e].nfc_card_id = db.employees[f].nfc_card_id
          /\ e > f
    /\ \E p \in Procs : pc[p] = "idle" /\ res[p] = 409

\* p takes a step of its tap request
TapStep(p) ==
    pc[p] \in {"tap_auth", "tap_employee", "tap_last", "tap_insert"} /\ pc'[p] # pc[p]

\* C16: a tap answered 200 has appended exactly one log row, with the
\* kiosk's company and id, the resolved employee's id, the presented card and
\* an event type of clock-in or clock-out that is the action of the response;
\* every other step of a tap, and so every tap answered 400, 401, 403, 404 or
\* 500, appends no row.
TapFrame ==
    [][\A p \in Procs : TapStep(p) =>
        IF pc'[p] = "idle" /\ res'[p] = 200
        THEN /\ db'.companies = db.companies /\ db'.users = db.users
             /\ db'.kiosks = db.kiosks /\ db'.employees = db.employees
             /\ \E id \in DOMAIN db'.attendance_logs \ DOMAIN db.attendance_logs :
                   LET row == db'.attendance_logs[id]
                   IN /\ DOMAIN db'.attendance_logs = DOMAIN db.attendance_logs \cup {id}
                      /\ \A l \in DOMAIN db.attendance_logs :
                            db'.attendance_logs[l] = db.attendance_logs[l]
                      /\ row.kiosk_id \in kiosksByKey(db, req[p].apiKey)
                      /\ row.company_id = db.kiosks[row.kiosk_id].company_id
                      /\ row.employee_id = req[p].employee_id
                      /\ row.nfc_card_id = req[p].nfc_card_id
                      /\ row.event_type \in {"clock-in", "clock-out"}
                      /\ row.event_type = req'[p].action
        ELSE db' = db
      ]_vars

\* a tap was answered 200 with action clock-out and its row is in the log;
\* another tap was turned away and the log has no row for it
TapFrameWitness ==
    \E p, q \in Procs :
        /\ pc[p] = "idle" /\ res[p] = 200
        /\ req[p] = Tapped("clock-out")
        /\ pc[q] = "idle" /\ res[q] \in {400, 401, 403, 404}
        /\ Cardinality(DOMAIN db.attendance_logs) = 2
        /\ \E l \in DOMAIN db.attendance_logs :
              db.attendance_logs[l].event_type = "clock-out"

\* the server process is inside setupDatabase
InSetup ==
    pc[Main] \in {"setup_companies", "setup_exists", "setup_alter", "setup_tables"}

\* C17: setupDatabase is idempotent: on a store that has the draft's full
\* schema, and in every run after a run in which no statement failed, no step
\* changes the store; a step that does change it adds a table or one missing
\* companies column and leaves every stored value of every row as it is.
SetupIdempotent ==
    [][InSetup =>
        /\ (UpToDate(db, req[Main].draft) \/ req[Main].completed >= 1) => db' = db
        /\ db.tables \subseteq db'.tables
        /\ db.columns \subseteq db'.columns
        /\ Cardinality(db'.columns \ db.columns) <= 1
              \/ (pc[Main] = "setup_companies" /\ "companies" \notin db.tables)
        /\ DOMAIN db'.companies = DOMAIN db.companies
        /\ \A i \in DOMAIN db.companies : \A col \in DOMAIN db.companies[i] :
              /\ col \in DOMAIN db'.companies[i]
              /\ db'.companies[i][col] = db.companies[i][col]
      ]_vars

\* the server was started twice on a store with a company and an earlier
\* schema: the first run added the missing columns, the second found the
\* full schema, and both reached listen
SetupIdempotentWitness ==
    /\ pc[Main] = "listening"
    /\ req[Main].completed = 2
    /\ req[Main].draft = "migrations"
    /\ UpToDate(db, "migrations")
    /\ db.companies # << >>
    /\ db.companies[1]["subscription_plan"] = "stored"
    /\ db.companies[1]["stripe_customer_id"] = "NULL"

\* C18: the server reaches listen only after a setupDatabase in which no
\* statement failed.
ListenOnlyAfterSetup ==
    pc[Main] = "listening" => ~req[Main].failed

\* C20: a registered company is on the free plan with a cap of 5 and status
\* active; with one request after the other, no plan change and no deletion,
\* an add-employee request with a valid card the company does not hold is
\* answered 201 while the company has fewer than 5 employees and 403 naming
\* the limit 5 once it has 5 (500 only on a storage fault), and the count
\* never exceeds 5.
FreePlanSeats ==
    /\ [](\A c \in DOMAIN db.companies :
            /\ BillingFields(db.companies[c]) = <<"free", 5, "active">>
            /\ EmployeeCount(db, c) <= 5)
    /\ [][\A p \in Procs :
            LET c == req[p].companyId
                valid == /\ req[p].name # 0 /\ req[p].nfc_card_id # 0
                         /\ \A e \in DOMAIN db.employees :
                               db.employees[e].company_id = c
                                  => db.employees[e].nfc_card_id # req[p].nfc_card_id
            IN /\ (pc[p] = "gate_count" /\ pc'[p] # pc[p]) =>
                    /\ db' = db
                    /\ IF EmployeeCount(db, c) < 5
                       THEN valid => (pc'[p] = "insert" \/ res'[p] = 500)
                       ELSE /\ pc'[p] = "idle" /\ res'[p] \in {403, 500}
                            /\ res'[p] = 403 => req'[p] = LimitReached(5)
               /\ (pc[p] = "insert" /\ pc'[p] # pc[p]) =>
                    /\ EmployeeCount(db, c) < 5
                    /\ valid => res'[p] \in {201, 500}
                    /\ res'[p] = 201 => EmployeeCount(db', c) = EmployeeCount(db, c) + 1
       ]_vars
    /\ [](\A p \in Procs :
            /\ (pc[p] = "gate_count" /\ EmployeeCount(db, req[p].companyId) >= 5)
                  => ENABLED (checkEmployeeLimitCount(p) /\ res'[p] = 403)
            /\ pc[p] = "insert"
                  => ENABLED (PostEmployeesInsert(p) /\ res'[p] \in {201, 409}))

\* company 1 had 4 employees, a fifth was added with a new card and the next
\* request was answered 403 naming the limit 5
FreePlanSeatsWitness ==
    \E p \in Procs :
        /\ pc[p] = "idle" /\ res[p] = 403 /\ req[p] = LimitReached(5)
        /\ EmployeeCount(db, 1) = 5
        /\ \E e \in DOMAIN db.employees : db.employees[e].nfc_card_id > FreeCap
        /\ nreq = 2

\* C21: with one request after the other, a registration whose company name
\* or email is already in the store never inserts its kiosk and is never
\* answered 201; its answer is 409 when the INSERT met the UNIQUE constraint
\* (500 when a statement failed otherwise) and the store after the answer is
\* the store the request found.
Duplicate(d, r) == CompanyNameInUse(d, r.companyName) \/ EmailInUse(d, r.email)

CompanyHoldsReference(d, c) ==
    c \in DOMAIN d.companies /\ d.companies[c].stripe_customer_id # 0

CreatedCustomer(p) ==
    /\ req[p].kind \in {"checkout", "checkout_done"}
    /\ req[p].created # 0
    /\ pc[p] = "idle" => res[p] = 200

CheckoutOneCustomer ==
    /\ \A p, q \in Procs :
          (p # q /\ CreatedCustomer(p) /\ CreatedCustomer(q))
              => req[p].companyId # req[q].companyId
    /\ (\A q \in Procs : pc[q] = "idle") =>
          \A p \in Procs :
              (req[p].kind = "checkout_done" /\ req[p].customer # 0)
                  => companiesOfCustomer(db, req[p].customer) = {req[p].companyId}

\* C23: no two add-employee requests of one company are at the same time
\* past their SELECT COUNT(*) and before the end of their INSERT.
ExclusiveCountThenInsert ==
    \A p, q \in Procs :
        (p # q /\ pc[p] = "insert" /\ pc[q] = "insert")
            => req[p].companyId # req[q].companyId

\* C24: taps are not serialized per employee.  A tap's read of the last log
\* row and its insert are never held back by another tap in flight, a tap's
\* step leaves the event type another tap has decided as it is, and the row a
\* tap appends has the event type the tap decided at its read, whatever was
\* appended since: two taps that read the same last row append two rows of
\* the same event type.
TapsNotSerialized ==
    /\ [](\A p \in Procs :
            /\ pc[p] = "tap_last"
                 => ENABLED (KioskTapLastLog(p) /\ pc'[p] = "tap_insert")
            /\ pc[p] = "tap_insert"
                 => ENABLED (KioskTapInsert(p) /\ res'[p] = 200))
    /\ [][\A p \in Procs : TapStep(p) =>
            /\ \A q \in Procs \ {p} : pc'[q] = pc[q] /\ req'[q] = req[q]
            /\ (pc[p] = "tap_insert" /\ res'[p] = 200) =>
                  /\ req'[p] = Tapped(req[p].newEventType)
                  /\ \E id \in DOMAIN db'.attendance_logs \ DOMAIN db.attendance_logs :
                        /\ db'.attendance_logs[id].employee_id = req[p].employee_id
                        /\ db'.attendance_logs[id].event_type = req[p].newEventType
       ]_vars

\* two taps of employee 1 were both answered 200 with the same action and
\* the employee's log has two consecutive rows of that event type
TapsNotSerializedWitness ==
    \E p, q \in Procs :
        /\ p # q /\ pc[p] = "idle" /\ pc[q] = "idle"
        /\ res[p] = 200 /\ res[q] = 200
        /\ req[p].kind = "tapped" /\ req[q] = req[p]
        /\ LET ev == EventsOf(1)
           IN /\ Len(ev) >= 2
              /\ ev[Len(ev)] = req[p].action
              /\ ev[Len(ev) - 1] = req[p].action

\* C25: the ROLLBACK of a registration removes only what that registration
\* wrote: it leaves every employee and log row and every row and field of
\* the companies, users and kiosks of other companies as they are.
RollbackStep(p) == pc[p] = "reg_rollback" /\ pc'[p] # pc[p]

RollbackOwnRowsOnly ==
    [][\A p \in Procs : RollbackStep(p) =>
        /\ db'.employees = db.employees
        /\ db'.attendance_logs = db.attendance_logs
        /\ \A c \in DOMAIN db.companies :
              c # req[p].newCompanyId
                 => c \in DOMAIN db'.companies /\ db'.companies[c] = db.companies[c]
        /\ \A t \in {"users", "kiosks"} : \A i \in DOMAIN db[t] :
              db[t][i].company_id # req[p].newCompanyId
                 => i \in DOMAIN db'[t] /\ db'[t][i] = db[t][i]
      ]_vars

\* C26: no registration is left without a response: the ROLLBACK of the catch
\* block never throws, so every registration that entered the catch block is
\* answered.
RegistrationAnswered ==
    \A p \in Procs : pc[p] # "unanswered"

\* C27: after a step that changes a company's plan, cap or status, the
\* company has employee_count <= max_employees or is not active.
PlanChangeKeepsCap ==
    [][\A c \in DOMAIN db.companies :
        (c \in DOMAIN db'.companies
            /\ BillingFields(db'.companies[c]) # BillingFields(db.companies[c]))
        => \/ EmployeeCount(db', c) <= db'.companies[c].max_employees
           \/ db'.companies[c].subscription_status # "active"
      ]_vars

\* C29: an added employee gets an id greater than every id the table has
\* ever assigned, also after deletions, and no log row carries that id; a tap
\* of an employee whose id no log row carries is recorded as clock-in, whatever
\* the log holds for other, deleted, employees with the same card.
LogsOf(d, employee_id) ==
    {l \in DOMAIN d.attendance_logs : d.attendance_logs[l].employee_id = employee_id}

ToggleResetsOnReadd ==
    /\ [](/\ \A e \in DOMAIN db.employees : e <= db.sqlite_sequence.employees
          /\ \A l \in DOMAIN db.attendance_logs :
                db.attendance_logs[l].employee_id <= db.sqlite_sequence.employees)
    /\ [][/\ db'.sqlite_sequence.employees >= db.sqlite_sequence.employees
          /\ \A e \in DOMAIN db'.employees \ DOMAIN db.employees :
                /\ e > db.sqlite_sequence.employees
                /\ LogsOf(db', e) = {}
       ]_vars
    /\ [][\A p \in Procs :
            (/\ pc[p] = "tap_insert" /\ res'[p] = 200
             /\ LogsOf(db, req[p].employee_id) = {})
            => /\ req'[p] = Tapped("clock-in")
               /\ \A l \in LogsOf(db', req[p].employee_id) :
                     db'.attendance_logs[l].event_type = "clock-in"
       ]_vars

\* employee 1 of company 1 (card 1, last event clock-in) is deleted; the card
\* was added again as employee 3, whose tap was answered with clock-in
ToggleResetsWitness ==
    \E p \in Procs :
        /\ pc[p] = "idle" /\ res[p] = 200 /\ req[p] = Tapped("clock-in")
        /\ 1 \notin DOMAIN db.employees
        /\ 3 \in DOMAIN db.employees
        /\ db.employees[3].company_id = 1 /\ db.employees[3].nfc_card_id = 1
        /\ \E l \in LogsOf(db, 1) : db.attendance_logs[l].event_type = "clock-in"
        /\ \E l \in LogsOf(db, 3) : db.attendance_logs[l].event_type = "clock-in"

\* C30: every log row, at the step that writes it, names an employee that is
\* in the store, and its company_id is that employee's and its kiosk's.
LogRowsReferToLiveEmployee ==
    [][\A l \in DOMAIN db'.attendance_logs \ DOMAIN db.attendance_logs :
        LET row == db'.attendance_logs[l]
        IN /\ row.kiosk_id \in DOMAIN db.kiosks
           /\ db.kiosks[row.kiosk_id].company_id = row.company_id
           /\ row.employee_id \in DOMAIN db.employees
           /\ db.employees[row.employee_id].company_id = row.company_id
      ]_vars

\* C8: every company's max_employees is the seat cap its draft's plan
\* catalog assigns to its subscription_plan.
PlanCapInvariant ==
    \A c \in DOMAIN db.companies :
        LET plan == db.companies[c].subscription_plan
            max == db.companies[c].max_employees
        IN \/ /\ plan \in DOMAIN SUBSCRIPTION_PLANS
              /\ max = SUBSCRIPTION_PLANS[plan].max_employees
           \/ /\ plan \in DOMAIN SUBSCRIPTION_PLANS_tiers
              /\ max = SUBSCRIPTION_PLANS_tiers[plan].max_employees

====
